---- MODULE Spec2Model ----
(***************************************************************************)
(* Recommendation generation of the course-recommendation backend:         *)
(* routes/recommendation_routes.py (generate_user_recommendations and the  *)
(* three filters) over models.py (User.recommended_modules, Module,        *)
(* TopicByModule).                                                         *)
(*                                                                         *)
(* One request is a process of Procs.  Its handler is cut into steps at    *)
(* every read of and every commit to the datastore, so that two requests   *)
(* of the same user interleave exactly where the code lets them.           *)
(*                                                                         *)
(* Spec has one request over every table and payload, SpecConc two         *)
(* requests of one user at once, SpecRuns requests one after the other     *)
(* over a changing Module table, SpecEdge one request over ill-formed      *)
(* payloads and stored lists, SpecRead a request with reads of the stored  *)
(* list beside it, and SpecFilters the three filters called on their own.  *)
(***************************************************************************)
EXTENDS Integers, Sequences, FiniteSets, TLC

(***************************************************************************)
(* Bounds of the model.                                                    *)
(***************************************************************************)
\* longest Module table (catalog) drawn by Init
MaxCat == 2
\* longest user_priority list drawn by Init
MaxPrio == 2

(***************************************************************************)
(* Data.                                                                   *)
(***************************************************************************)
\* Python's None for a nullable Integer column (models.py: positive_reviews,
\* positive_reviews_topic); the columns themselves hold percentages 0..100.
None == -1

\* the review threshold of filter_by_feelings and filter_by_aspect
Threshold == 70

ML == "Machine Learning"
AT == "Algorithmic Toolbox"
OM == "Old Module"

\* every module name of the model: two names of the static category map and
\* one name that the map does not know
Names == {ML, AT, OM}

\* the category column of a Module row (models.py:343), by the row's name
\* and rating: the column and filter_by_subject's map disagree on the second
\* and on the third name
CategoryColumn(name, positive_reviews) ==
    CASE name = AT -> "Data Science"
      [] name = ML /\ positive_reviews = 50 -> "Data Science"
      [] OTHER -> "AI & Machine Learning"

Row(name, positive_reviews) ==
    [name |-> name, positive_reviews |-> positive_reviews,
     category |-> CategoryColumn(name, positive_reviews)]

\* rows a Module table may hold: Module.name is not unique (models.py:340),
\* so two rows may share a name
ModuleRows == { Row(ML, 85), Row(ML, 50), Row(AT, 70), Row(OM, None) }

\* the TopicByModule table: under the aspect "neural networks" the first
\* name passes, the second fails (69 and None) and the third passes at 70
TopicRows ==
    { [name |-> ML, topic |-> "neural networks", positive_reviews_topic |-> 80],
      [name |-> ML, topic |-> "assignments",     positive_reviews_topic |-> 60],
      [name |-> AT, topic |-> "neural networks", positive_reviews_topic |-> 69],
      [name |-> AT, topic |-> "neural networks", positive_reviews_topic |-> None],
      [name |-> AT, topic |-> "assignments",     positive_reviews_topic |-> 70],
      [name |-> OM, topic |-> "neural networks", positive_reviews_topic |-> 70] }

\* filter_by_subject's hardcoded dictionary, literally (the typographic
\* apostrophe of "The Data Scientist's Toolbox" is written in ASCII)
modules_each_cat ==
    [ c \in { "AI & Machine Learning", "Algorithms", "Big Data",
              "Business & Technology", "C++ Programming", "Cyber Security",
              "Data Analytics", "Data Management", "Data Science",
              "Data Visualization", "Databases", "Financial Analysis",
              "Problem Solving", "Programming Basics", "Programming Languages",
              "Python & Web Development", "Python Programming",
              "Quantum Computing", "Software Engineering" } |->
      CASE c = "AI & Machine Learning" ->
             {"Machine Learning", "Applied Machine Learning in Python", "Mobile Robots"}
        [] c = "Algorithms" ->
             {"Algorithmic Toolbox", "Data Structures and Algorithms in Java"}
        [] c = "Big Data" ->
             {"Introduction to Big Data", "Cloud Computing Fundamentals"}
        [] c = "Business & Technology" -> {"Digital Business Models"}
        [] c = "C++ Programming" -> {"Object-Oriented Data Structures in C++"}
        [] c = "Cyber Security" ->
             {"Information Security: Context and Introduction",
              "Computer Networks and Security",
              "Ethical Hacking and Penetration Testing"}
        [] c = "Data Analytics" -> {"Data Analytics for Lean Six Sigma"}
        [] c = "Data Management" -> {"Research Data Management and Sharing"}
        [] c = "Data Science" ->
             {"The Data Scientist's Toolbox", "Introduction to Data Science in Python"}
        [] c = "Data Visualization" ->
             {"Applied Plotting, Charting & Data Representation in Python"}
        [] c = "Databases" ->
             {"Using Databases with Python", "SQL for Data Science",
              "Database Administration with PostgreSQL"}
        [] c = "Financial Analysis" -> {"Python and Statistics for Financial Analysis"}
        [] c = "Problem Solving" -> {"Computational Thinking for Problem Solving"}
        [] c = "Programming Basics" ->
             {"Programming Fundamentals", "Introduction to Computer Programming"}
        [] c = "Programming Languages" -> {"Programming Languages, Part A"}
        [] c = "Python & Web Development" -> {"Full-Stack Web Development with React"}
        [] c = "Python Programming" ->
             {"Programming for Everybody (Getting Started with Python)",
              "Python Basics", "Python Functions, Files, and Dictionaries",
              "Python Programming: A Concise Introduction"}
        [] c = "Quantum Computing" ->
             {"The Introduction to Quantum Computing", "Quantum Information Theory"}
        [] c = "Software Engineering" ->
             {"Object-Oriented Design", "Mobile App Development with Flutter",
              "Software Testing and Quality Assurance", "Microservices Architecture"} ]

\* all sequences over S of length at most n
RECURSIVE SeqsUpTo(_, _)
SeqsUpTo(S, n) ==
    IF n = 0 THEN {<<>>}
    ELSE LET shorter == SeqsUpTo(S, n - 1)
         IN  shorter \cup {Append(s, x) : s \in {t \in shorter : Len(t) = n - 1}, x \in S}

\* the elements of a list, as a set
Elems(s) == {s[k] : k \in 1..Len(s)}


(***************************************************************************)
(* The filters (recommendation_routes.py:209-379).  A filter reads the     *)
(* Module and TopicByModule tables only.  `raises` is the set of positions *)
(* of the candidate list whose data lookup raises in this call.            *)
(***************************************************************************)
\* the `filtered_list = []; for module_name in current_shortlist: ... append`
\* loop from position k on, where `kept` holds the positions whose candidate
\* the loop body appends
RECURSIVE LoopFrom(_, _, _, _)
LoopFrom(L, k, kept, filtered_list) ==
    IF k > Len(L) THEN filtered_list
    ELSE LoopFrom(L, k + 1, kept,
                  IF k \in kept THEN Append(filtered_list, L[k]) ELSE filtered_list)

\* Module.query.filter_by(name=module_name).first(): the first row of that
\* name in table order, as a set that is empty when there is none
FirstModule(cat, module_name) ==
    LET rows == {k \in 1..Len(cat) : cat[k].name = module_name}
    IN  IF rows = {} THEN {}
        ELSE {cat[CHOOSE k \in rows : \A j \in rows : k <= j]}

\* FeelingsKeeps without the threshold test: any record found is kept
FeelingsKeepsAny(cat, module_name) == FirstModule(cat, module_name) # {}

\* FeelingsKeeps with the threshold exclusive: a rating of 70 fails
FeelingsKeepsAbove(cat, module_name) ==
    \E module_data \in FirstModule(cat, module_name) :
        /\ module_data.positive_reviews # None
        /\ module_data.positive_reviews > Threshold

\* lines 293-305: the record exists and its positive_reviews is not None and
\* is >= 70
FeelingsKeeps(cat, module_name) ==
    \E module_data \in FirstModule(cat, module_name) :
        /\ module_data.positive_reviews # None
        /\ module_data.positive_reviews >= Threshold

\* filter_by_feelings with the except clause of lines 306-310 dropping the
\* candidate whose lookup raised
FeelingsDropsOnError(cat, current_shortlist, selected_importance, raises) ==
    IF selected_importance > 2 THEN current_shortlist
    ELSE LET kept == {k \in 1..Len(current_shortlist) :
                         k \notin raises /\ FeelingsKeeps(cat, current_shortlist[k])}
         IN  LoopFrom(current_shortlist, 1, kept, <<>>)

\* filter_by_feelings with the early return moved up by one: importance 3
\* is filtered
FeelingsSkipsAbove3(cat, current_shortlist, selected_importance, raises) ==
    IF selected_importance > 3 THEN current_shortlist
    ELSE LET kept == {k \in 1..Len(current_shortlist) :
                         k \in raises \/ FeelingsKeeps(cat, current_shortlist[k])}
         IN  LoopFrom(current_shortlist, 1, kept, <<>>)

filter_by_feelings(cat, current_shortlist, selected_importance, raises) ==
    IF selected_importance > 2 THEN current_shortlist
    ELSE LET kept == {k \in 1..Len(current_shortlist) :
                         IF k \in raises
                         THEN TRUE   \* except: module_name in current_shortlist
                         ELSE FeelingsKeeps(cat, current_shortlist[k])}
         IN  LoopFrom(current_shortlist, 1, kept, <<>>)

\* lines 362-368: the union of the map's lists over the selected categories
\* that the map knows
AllowedModules(selected_categories) ==
    UNION { modules_each_cat[category] :
              category \in Elems(selected_categories) \cap DOMAIN modules_each_cat }

\* filter_by_subject by the category column of the Module rows instead of
\* the map
SubjectByCategoryColumn(current_shortlist, selected_categories) ==
    IF selected_categories = <<>> THEN current_shortlist
    ELSE LET kept == {k \in 1..Len(current_shortlist) :
                         \E row \in ModuleRows :
                            /\ row.name = current_shortlist[k]
                            /\ row.category \in Elems(selected_categories)}
         IN  LoopFrom(current_shortlist, 1, kept, <<>>)

\* filter_by_subject without the early return: no category, no module
SubjectFiltersEmpty(current_shortlist, selected_categories) ==
    LET kept == {k \in 1..Len(current_shortlist) :
                    current_shortlist[k] \in AllowedModules(selected_categories)}
    IN  LoopFrom(current_shortlist, 1, kept, <<>>)

\* filter_by_subject that also drops the first module it would keep
SubjectDropsHead(current_shortlist, selected_categories) ==
    IF selected_categories = <<>> THEN current_shortlist
    ELSE LET kept == {k \in 1..Len(current_shortlist) :
                         current_shortlist[k] \in AllowedModules(selected_categories)}
             filtered_list == LoopFrom(current_shortlist, 1, kept, <<>>)
         IN  IF filtered_list = <<>> THEN <<>> ELSE Tail(filtered_list)

\* filter_by_subject as an expansion: a name of the map is appended, whether
\* or not the candidates hold it
SubjectAddsName(current_shortlist, selected_categories) ==
    IF selected_categories = <<>> THEN current_shortlist
    ELSE Append(current_shortlist, "Mobile Robots")

filter_by_subject(current_shortlist, selected_categories) ==
    IF selected_categories = <<>> THEN current_shortlist
    ELSE LET kept == {k \in 1..Len(current_shortlist) :
                         current_shortlist[k] \in AllowedModules(selected_categories)}
         IN  LoopFrom(current_shortlist, 1, kept, <<>>)

\* AspectKeeps without the test of the topic: any topic rated 70 or more
\* keeps the module
AspectKeepsAnyTopic(topics, module_name, selected_aspects) ==
    \E topic \in {t \in topics : t.name = module_name} :
        /\ topic.positive_reviews_topic # None
        /\ topic.positive_reviews_topic >= Threshold

\* lines 235-246: some topic row of the module has its topic among the
\* selected aspects and a positive_reviews_topic that is not None and >= 70
AspectKeeps(topics, module_name, selected_aspects) ==
    \E topic \in {t \in topics : t.name = module_name} :
        /\ topic.topic \in Elems(selected_aspects)
        /\ topic.positive_reviews_topic # None
        /\ topic.positive_reviews_topic >= Threshold

\* filter_by_aspect without the early return: no aspect, no module
AspectFiltersEmpty(topics, current_shortlist, selected_aspects, raises) ==
    LET kept == {k \in 1..Len(current_shortlist) :
                    k \in raises
                       \/ AspectKeeps(topics, current_shortlist[k], selected_aspects)}
    IN  LoopFrom(current_shortlist, 1, kept, <<>>)

filter_by_aspect(topics, current_shortlist, selected_aspects, raises) ==
    IF selected_aspects = <<>> THEN current_shortlist
    ELSE LET kept == {k \in 1..Len(current_shortlist) :
                         IF k \in raises
                         THEN TRUE   \* except: module_name in current_shortlist
                         ELSE AspectKeeps(topics, current_shortlist[k], selected_aspects)}
         IN  LoopFrom(current_shortlist, 1, kept, <<>>)

\* the names a call looks up, in order: filter_by_feelings queries Module
\* once per candidate (line 290) unless it returns at line 282,
\* filter_by_aspect queries TopicByModule once per candidate (line 235)
\* unless it returns at line 226, and filter_by_subject queries nothing
FeelingsLookups(current_shortlist, selected_importance) ==
    IF selected_importance > 2 THEN <<>> ELSE current_shortlist

AspectLookups(current_shortlist, selected_aspects) ==
    IF selected_aspects = <<>> THEN <<>> ELSE current_shortlist


(***************************************************************************)
(* The request payload (request.json).  A field is a set: empty when the   *)
(* key is missing from the object, else the singleton of its value.  The   *)
(* objects of the model carry no key other than the four preference keys.  *)
(***************************************************************************)
Keys == {"user_priority", "selected_importance", "selected_categories", "selected_aspects"}

\* dict.get(key, default)
Get(d, key, default) == IF d[key] = {} THEN default ELSE CHOOSE v \in d[key] : TRUE

\* NotData with the check dropped
NotDataNever(d) == FALSE

\* line 86, `not data`: None (no JSON body), or a dict without any key
NotData(d) == d.body = "absent" \/ \A key \in Keys : d[key] = {}

PriorityOrders == SeqsUpTo({1, 2, 3}, MaxPrio)
Importances == {2, 3}
CategoryLists == {<<"AI & Machine Learning", "Robotics", "Algorithms">>}
AspectLists == {<<"neural networks", "workload">>}

Opt(S) == {{}} \cup {{v} : v \in S}

Objects ==
    [ body : {"object"},
      user_priority : Opt(PriorityOrders),
      selected_importance : Opt(Importances),
      selected_categories : Opt(CategoryLists),
      selected_aspects : Opt(AspectLists) ]

NoBody ==
    [ body |-> "absent", user_priority |-> {}, selected_importance |-> {},
      selected_categories |-> {}, selected_aspects |-> {} ]

Payloads == Objects \cup {NoBody}

(***************************************************************************)
(* The User.recommended_modules column (models.py:50): a JSON text.        *)
(***************************************************************************)
\* json.dumps of a list of names, and json.loads of such a text
json_dumps(list) == [json |-> list]
json_loads(text) == text.json

\* a session's copy of the attribute: loaded, or expired (every commit and
\* every rollback expires it, and the next access reloads it from the table)
Loaded(text) == [expired |-> FALSE, text |-> text]
Expired == [expired |-> TRUE, text |-> json_dumps(<<>>)]

\* RemoveFirst with the removal lost: the list is written back as it was read
RemoveNothing(list, x) == list

\* list.remove(x): the list without the first occurrence of x
RemoveFirst(list, x) ==
    LET k == CHOOSE i \in 1..Len(list) : list[i] = x /\ \A j \in 1..(i - 1) : list[j] # x
    IN  SubSeq(list, 1, k - 1) \o SubSeq(list, k + 1, Len(list))

Procs == {"r1", "r2"}

\* the JSON list columns of the users table beside the user's
\* recommended_modules (models.py:43-50): the user's saved, taught and
\* selected modules, and the four lists of another user
OtherColumns ==
    [ saved_modules |-> json_dumps(<<AT>>),
      taught_modules |-> json_dumps(<<>>),
      selected_modules |-> json_dumps(<<ML, AT>>),
      other_user |->
          [ saved_modules |-> json_dumps(<<ML>>),
            taught_modules |-> json_dumps(<<AT>>),
            selected_modules |-> json_dumps(<<>>),
            recommended_modules |-> json_dumps(<<OM, AT>>) ] ]

\* no filter has been called on its own
NoCall ==
    [ fn |-> "none", current_shortlist |-> <<>>, selected_importance |-> 0,
      selected_categories |-> <<>>, selected_aspects |-> <<>>, raises |-> {},
      lookups |-> <<>>, result |-> <<>>, again |-> FALSE, raises_again |-> {},
      result_again |-> <<>> ]

VARIABLES
    catalog,              \* the Module table, in table order
    topic_table,          \* the TopicByModule table
    recommended_modules,  \* the user's column, as committed to the database
    pc,                   \* where each request's handler stands
    data,                 \* each request's payload
    attr,                 \* each request's session copy of the column
    existing_modules,     \* line 95
    modules,              \* the local list of add_/remove_recommended_module
    idx,                  \* position of the remove loop, then of the add loop
    shortlist,            \* lines 132-179
    pidx,                 \* position of the priority loop
    response,             \* status and recommended_modules of the response
    before,               \* history: the committed list when the request came in
    log,                  \* history: what the handler did, in order
    arrivals,             \* history: the requests in the order they came in
    overlap,              \* history: a request came in while another was running
    call,                 \* a filter called on its own: arguments and results
    other_columns         \* the user's other lists, and the lists of another user

vars == << catalog, topic_table, recommended_modules, pc, data, attr,
           existing_modules, modules, idx, shortlist, pidx, response, before, log,
           arrivals, overlap, call, other_columns >>

\* what no step of the handler after the request's arrival writes
tables == << catalog, topic_table, arrivals, overlap, call, other_columns >>

Running(p) == pc[p] \notin {"off", "idle", "done"}

\* User.get_recommended_modules (models.py:116-128) on request p's session:
\* the text the attribute access yields, and the list decoded from it
AttrText(p) == IF attr[p].expired THEN recommended_modules ELSE attr[p].text
get_recommended_modules(p) == json_loads(AttrText(p))

priority_order(p) == Get(data[p], "user_priority", <<>>)
selected_importance(p) == Get(data[p], "selected_importance", 1)
selected_categories(p) == Get(data[p], "selected_categories", <<>>)
selected_aspects(p) == Get(data[p], "selected_aspects", <<>>)

Event(kind, arg) == <<kind, arg>>
Logged(p, e) == [log EXCEPT ![p] = Append(@, e)]

NoResponse == [status |-> 0, recommended_modules |-> <<>>]


(***************************************************************************)
(* generate_user_recommendations (recommendation_routes.py:54-205).        *)
(***************************************************************************)
\* login_required loads current_user into the request's session; lines 85-96
Request(p) ==
    /\ pc[p] = "idle"
    /\ attr' = [attr EXCEPT ![p] = Loaded(recommended_modules)]
    /\ before' = [before EXCEPT ![p] = json_loads(recommended_modules)]
    /\ IF NotData(data[p])
       THEN /\ response' = [response EXCEPT ![p] =
                               [status |-> 400, recommended_modules |-> <<>>]]
            /\ pc' = [pc EXCEPT ![p] = "done"]
            /\ log' = Logged(p, Event("respond", "400"))
            /\ UNCHANGED << existing_modules, idx >>
       ELSE /\ existing_modules' =
                   [existing_modules EXCEPT ![p] = json_loads(recommended_modules)]
            /\ idx' = [idx EXCEPT ![p] = 1]
            /\ pc' = [pc EXCEPT ![p] = "remove"]
            /\ UNCHANGED << response, log >>
    /\ arrivals' = Append(arrivals, p)
    /\ overlap' = (overlap \/ \E q \in Procs \ {p} : Running(q))
    /\ UNCHANGED << catalog, topic_table, recommended_modules, data, modules, shortlist,
                    pidx, call, other_columns >>

\* lines 100-101 with models.py:165-166: the read of remove_recommended_module
RemoveRead(p) ==
    /\ pc[p] = "remove"
    /\ idx[p] <= Len(existing_modules[p])
    /\ attr' = [attr EXCEPT ![p] = Loaded(AttrText(p))]
    /\ modules' = [modules EXCEPT ![p] = get_recommended_modules(p)]
    /\ IF existing_modules[p][idx[p]] \in Elems(get_recommended_modules(p))
       THEN /\ pc' = [pc EXCEPT ![p] = "remove_commit"]
            /\ UNCHANGED << idx, log >>
       ELSE /\ idx' = [idx EXCEPT ![p] = @ + 1]
            /\ log' = Logged(p, Event("remove_skip", existing_modules[p][idx[p]]))
            /\ UNCHANGED pc
    /\ UNCHANGED << tables, recommended_modules, data, existing_modules, shortlist,
                    pidx, response, before >>

\* models.py:167-169: remove, assign, commit.  The call stands in no try
\* block (lines 100-101), so a commit that raises ends the request with 500.
RemoveCommit(p) ==
    /\ pc[p] = "remove_commit"
    /\ LET module_name == existing_modules[p][idx[p]]
       IN  \/ /\ recommended_modules' = json_dumps(RemoveFirst(modules[p], module_name))
              /\ attr' = [attr EXCEPT ![p] = Expired]
              /\ idx' = [idx EXCEPT ![p] = @ + 1]
              /\ pc' = [pc EXCEPT ![p] = "remove"]
              /\ log' = Logged(p, Event("remove", module_name))
              /\ UNCHANGED response
           \/ /\ attr' = [attr EXCEPT ![p] = Expired]
              /\ response' = [response EXCEPT ![p] =
                                 [status |-> 500, recommended_modules |-> <<>>]]
              /\ pc' = [pc EXCEPT ![p] = "done"]
              /\ log' = Logged(p, Event("remove_failed", module_name))
              /\ UNCHANGED << recommended_modules, idx >>
    /\ UNCHANGED << tables, data, existing_modules, modules, shortlist, pidx, before >>

\* lines 103-110: the check after the loop reads the list and only prints
VerifyCleared(p) ==
    /\ pc[p] = "remove"
    /\ idx[p] > Len(existing_modules[p])
    /\ attr' = [attr EXCEPT ![p] = Loaded(AttrText(p))]
    /\ pc' = [pc EXCEPT ![p] = "seed"]
    /\ UNCHANGED << tables, recommended_modules, data, existing_modules, modules, idx,
                    shortlist, pidx, response, before, log >>

\* Seed with the shortlist starting from the names that were stored for the
\* user, followed by the name of every Module row
SeedFromStored(p) ==
    /\ pc[p] = "seed"
    /\ shortlist' = [shortlist EXCEPT ![p] =
                        existing_modules[p] \o [k \in 1..Len(catalog) |-> catalog[k].name]]
    /\ pidx' = [pidx EXCEPT ![p] = 1]
    /\ pc' = [pc EXCEPT ![p] = "filter"]
    /\ log' = Logged(p, Event("seed", "ok"))
    /\ UNCHANGED << tables, recommended_modules, data, attr, existing_modules, modules,
                    idx, response, before >>

\* Seed with a query that raises taken for an empty catalog: the run goes
\* on with an empty shortlist
SeedFailureGoesOn(p) ==
    /\ pc[p] = "seed"
    /\ \/ /\ shortlist' = [shortlist EXCEPT ![p] =
                              [k \in 1..Len(catalog) |-> catalog[k].name]]
          /\ log' = Logged(p, Event("seed", "ok"))
       \/ /\ shortlist' = [shortlist EXCEPT ![p] = <<>>]
          /\ log' = Logged(p, Event("seed", "failed"))
    /\ pidx' = [pidx EXCEPT ![p] = 1]
    /\ pc' = [pc EXCEPT ![p] = "filter"]
    /\ UNCHANGED << tables, recommended_modules, data, attr, existing_modules, modules,
                    idx, response, before >>

\* lines 112-137: the preferences are read with their defaults, and the
\* shortlist starts as the name of every Module row; a query that raises
\* ends the request with 500
Seed(p) ==
    /\ pc[p] = "seed"
    /\ \/ /\ shortlist' = [shortlist EXCEPT ![p] =
                              [k \in 1..Len(catalog) |-> catalog[k].name]]
          /\ pidx' = [pidx EXCEPT ![p] = 1]
          /\ pc' = [pc EXCEPT ![p] = "filter"]
          /\ log' = Logged(p, Event("seed", "ok"))
          /\ UNCHANGED response
       \/ /\ response' = [response EXCEPT ![p] =
                             [status |-> 500, recommended_modules |-> <<>>]]
          /\ pc' = [pc EXCEPT ![p] = "done"]
          /\ log' = Logged(p, Event("seed", "failed"))
          /\ UNCHANGED << shortlist, pidx >>
    /\ UNCHANGED << tables, recommended_modules, data, attr, existing_modules, modules,
                    idx, before >>

\* the positions whose lookup may raise in one filter call
LookupRaises(L) == {{}}

\* lines 142-146
priority_mapping(priority) ==
    CASE priority = 1 -> "filter_by_feelings"
      [] priority = 2 -> "filter_by_subject"
      [] priority = 3 -> "filter_by_aspect"
      [] OTHER -> "None"

\* ApplyPriority with a priority value that no filter answers to taken for an
\* error that empties the shortlist
ApplyPriorityUnknownEmpties(p, priority, raises) ==
    CASE priority = 1 ->
           filter_by_feelings(catalog, shortlist[p], selected_importance(p), raises)
      [] priority = 2 -> filter_by_subject(shortlist[p], selected_categories(p))
      [] priority = 3 ->
           filter_by_aspect(topic_table, shortlist[p], selected_aspects(p), raises)
      [] OTHER -> <<>>

\* ApplyPriority with the subject filter applied after the aspect filter as
\* well, whether or not 2 is among the priorities
ApplyPriorityAspectThenSubject(p, priority, raises) ==
    CASE priority = 1 ->
           filter_by_feelings(catalog, shortlist[p], selected_importance(p), raises)
      [] priority = 2 -> filter_by_subject(shortlist[p], selected_categories(p))
      [] priority = 3 ->
           filter_by_subject(
               filter_by_aspect(topic_table, shortlist[p], selected_aspects(p), raises),
               selected_categories(p))
      [] OTHER -> shortlist[p]

\* lines 156-161: the filter of one priority value, applied to the shortlist
ApplyPriority(p, priority, raises) ==
    CASE priority = 1 ->
           filter_by_feelings(catalog, shortlist[p], selected_importance(p), raises)
      [] priority = 2 -> filter_by_subject(shortlist[p], selected_categories(p))
      [] priority = 3 ->
           filter_by_aspect(topic_table, shortlist[p], selected_aspects(p), raises)
      [] OTHER -> shortlist[p]

\* a JSON array sent as one of the selected categories: a Python list, which
\* the test `category in modules_each_cat` of line 364 cannot hash
Unhashable == "[list]"

\* the filter call of one priority value raises as a whole, outside the
\* filter's own try blocks: `None > 2` at line 280 when selected_importance
\* was sent as null, and the dictionary test of line 364 on a category that
\* is a list
FilterRaises(p, priority) ==
    \/ priority = 1 /\ selected_importance(p) = None
    \/ priority = 2 /\ Unhashable \in Elems(selected_categories(p))

\* Filter with a filter that writes: the Module rows of the names it drops
\* are deleted
FilterPrunesCatalog(p) ==
    /\ pc[p] = "filter"
    /\ pidx[p] <= Len(priority_order(p))
    /\ LET priority == priority_order(p)[pidx[p]]
           filtered_list == ApplyPriority(p, priority, {})
       IN  /\ shortlist' = [shortlist EXCEPT ![p] = filtered_list]
           /\ catalog' = SelectSeq(catalog, LAMBDA row : row.name \in Elems(filtered_list))
           /\ log' = Logged(p, Event("filter", priority_mapping(priority)))
    /\ pidx' = [pidx EXCEPT ![p] = @ + 1]
    /\ UNCHANGED << topic_table, arrivals, overlap, call, other_columns,
                    recommended_modules, pc, data, attr, existing_modules, modules, idx,
                    response, before >>

\* lines 150-168: one turn of the priority loop; an exception of the filter
\* call is caught at line 164 and the shortlist stays as it was
Filter(p) ==
    /\ pc[p] = "filter"
    /\ pidx[p] <= Len(priority_order(p))
    /\ LET priority == priority_order(p)[pidx[p]]
       IN  IF FilterRaises(p, priority)
           THEN /\ log' = Logged(p, Event("filter_raised", priority_mapping(priority)))
                /\ UNCHANGED shortlist
           ELSE \E raises \in LookupRaises(shortlist[p]) :
                   /\ shortlist' =
                         [shortlist EXCEPT ![p] = ApplyPriority(p, priority, raises)]
                   /\ log' = Logged(p, Event("filter", priority_mapping(priority)))
    /\ pidx' = [pidx EXCEPT ![p] = @ + 1]
    /\ UNCHANGED << tables, recommended_modules, pc, data, attr, existing_modules,
                    modules, idx, response, before >>

\* OverrideApplies with the additional filter dropped
OverrideNever(p) == FALSE

\* OverrideApplies without the test for priority 1: the filter runs again
\* whenever importance <= 2
OverrideWheneverImportant(p) == selected_importance(p) <= 2

\* line 172
OverrideApplies(p) ==
    selected_importance(p) <= 2 /\ 1 \notin Elems(priority_order(p))

\* lines 170-185: the additional feelings filter after the priority loop.
\* The test of line 172 stands in no try block: with selected_importance
\* sent as null, `None <= 2` raises and the request ends with 500.
Override(p) ==
    /\ pc[p] = "filter"
    /\ pidx[p] > Len(priority_order(p))
    /\ IF selected_importance(p) = None
       THEN /\ response' = [response EXCEPT ![p] =
                               [status |-> 500, recommended_modules |-> <<>>]]
            /\ pc' = [pc EXCEPT ![p] = "done"]
            /\ log' = Logged(p, Event("override_raised", "TypeError"))
            /\ UNCHANGED << shortlist, idx >>
       ELSE /\ IF OverrideApplies(p)
               THEN \E raises \in LookupRaises(shortlist[p]) :
                      /\ shortlist' = [shortlist EXCEPT ![p] =
                            filter_by_feelings(catalog, shortlist[p],
                                               selected_importance(p), raises)]
                      /\ log' = Logged(p, Event("override", "filter_by_feelings"))
               ELSE UNCHANGED << shortlist, log >>
            /\ idx' = [idx EXCEPT ![p] = 1]
            /\ pc' = [pc EXCEPT ![p] = "add"]
            /\ UNCHANGED response
    /\ UNCHANGED << tables, recommended_modules, data, attr, existing_modules, modules,
                    pidx, before >>

\* AddRead without the membership test of models.py:151: every name of the
\* shortlist is appended
AddReadUnchecked(p) ==
    /\ pc[p] = "add"
    /\ idx[p] <= Len(shortlist[p])
    /\ attr' = [attr EXCEPT ![p] = Loaded(AttrText(p))]
    /\ modules' = [modules EXCEPT ![p] = get_recommended_modules(p)]
    /\ pc' = [pc EXCEPT ![p] = "add_commit"]
    /\ UNCHANGED << idx, log >>
    /\ UNCHANGED << tables, recommended_modules, data, existing_modules, shortlist,
                    pidx, response, before >>

\* lines 188-192 with models.py:150-151: the read of add_recommended_module
AddRead(p) ==
    /\ pc[p] = "add"
    /\ idx[p] <= Len(shortlist[p])
    /\ attr' = [attr EXCEPT ![p] = Loaded(AttrText(p))]
    /\ modules' = [modules EXCEPT ![p] = get_recommended_modules(p)]
    /\ IF shortlist[p][idx[p]] \notin Elems(get_recommended_modules(p))
       THEN /\ pc' = [pc EXCEPT ![p] = "add_commit"]
            /\ UNCHANGED << idx, log >>
       ELSE /\ idx' = [idx EXCEPT ![p] = @ + 1]
            /\ log' = Logged(p, Event("add_skip", shortlist[p][idx[p]]))
            /\ UNCHANGED pc
    /\ UNCHANGED << tables, recommended_modules, data, existing_modules, shortlist,
                    pidx, response, before >>

\* AddFailurePc with the exception left uncaught: the handler ends
AddFailureAborts == "done"

\* lines 193-195: the except clause of the add loop prints, and the loop goes
\* on with the next name
AddFailurePc == "add"

\* AddCommit with the name put at the head of the list
AddCommitPrepends(p) ==
    /\ pc[p] = "add_commit"
    /\ LET module_name == shortlist[p][idx[p]]
           assigned == json_dumps(<<module_name>> \o modules[p])
       IN  \/ /\ recommended_modules' = assigned
              /\ attr' = [attr EXCEPT ![p] = Expired]
              /\ pc' = [pc EXCEPT ![p] = "add"]
              /\ log' = Logged(p, Event("add", module_name))
           \/ /\ \E after \in {Loaded(assigned), Expired} :
                    attr' = [attr EXCEPT ![p] = after]
              /\ pc' = [pc EXCEPT ![p] = AddFailurePc]
              /\ log' = Logged(p, Event("add_failed", module_name))
              /\ UNCHANGED recommended_modules
    /\ idx' = [idx EXCEPT ![p] = @ + 1]
    /\ UNCHANGED << tables, data, existing_modules, modules, shortlist, pidx, response,
                    before >>

\* models.py:152-154: append, assign, commit.  A commit that raises is caught
\* at lines 193-195, and nothing there rolls the session back: the attribute
\* either keeps the list that was assigned to it, or the failed commit has
\* rolled the session back and expired it.
AddCommit(p) ==
    /\ pc[p] = "add_commit"
    /\ LET module_name == shortlist[p][idx[p]]
           assigned == json_dumps(Append(modules[p], module_name))
       IN  \/ /\ recommended_modules' = assigned
              /\ attr' = [attr EXCEPT ![p] = Expired]
              /\ pc' = [pc EXCEPT ![p] = "add"]
              /\ log' = Logged(p, Event("add", module_name))
           \/ /\ \E after \in {Loaded(assigned), Expired} :
                    attr' = [attr EXCEPT ![p] = after]
              /\ pc' = [pc EXCEPT ![p] = AddFailurePc]
              /\ log' = Logged(p, Event("add_failed", module_name))
              /\ UNCHANGED recommended_modules
    /\ idx' = [idx EXCEPT ![p] = @ + 1]
    /\ UNCHANGED << tables, data, existing_modules, modules, shortlist, pidx, response,
                    before >>

\* lines 197-205: the stored list is read for a print, and the shortlist is
\* returned with status 200
Respond(p) ==
    /\ pc[p] = "add"
    /\ idx[p] > Len(shortlist[p])
    /\ attr' = [attr EXCEPT ![p] = Loaded(AttrText(p))]
    /\ response' = [response EXCEPT ![p] =
                       [status |-> 200, recommended_modules |-> shortlist[p]]]
    /\ pc' = [pc EXCEPT ![p] = "done"]
    /\ log' = Logged(p, Event("respond", "200"))
    /\ UNCHANGED << tables, recommended_modules, data, existing_modules, modules, idx,
                    shortlist, pidx, before >>

Next ==
    \E p \in Procs :
        \/ Request(p)
        \/ RemoveRead(p)
        \/ RemoveCommit(p)
        \/ VerifyCleared(p)
        \/ Seed(p)
        \/ Filter(p)
        \/ Override(p)
        \/ AddRead(p)
        \/ AddCommit(p)
        \/ Respond(p)

\* lists the user's column may hold when a request comes in: none, or a
\* catalog name and a name that no catalog row and no shortlist has
PriorLists == {<<>>, <<ML, OM>>}

InitLocals ==
    /\ attr = [p \in Procs |-> Expired]
    /\ existing_modules = [p \in Procs |-> <<>>]
    /\ modules = [p \in Procs |-> <<>>]
    /\ idx = [p \in Procs |-> 1]
    /\ shortlist = [p \in Procs |-> <<>>]
    /\ pidx = [p \in Procs |-> 1]
    /\ response = [p \in Procs |-> NoResponse]
    /\ before = [p \in Procs |-> <<>>]
    /\ log = [p \in Procs |-> <<>>]
    /\ arrivals = <<>>
    /\ overlap = FALSE
    /\ other_columns = OtherColumns

\* one request of the user, over every table, payload and prior list
Init ==
    /\ catalog \in SeqsUpTo(ModuleRows, MaxCat)
    /\ topic_table = TopicRows
    /\ recommended_modules \in {json_dumps(list) : list \in PriorLists}
    /\ pc = [p \in Procs |-> IF p = "r1" THEN "idle" ELSE "off"]
    /\ data \in {[p \in Procs |-> IF p = "r1" THEN d ELSE NoBody] : d \in Payloads}
    /\ InitLocals
    /\ call = NoCall

Spec == Init /\ [][Next]_vars


\* two requests of the same user, each with its own session, over one table:
\* the first asks for the aspect filter alone, which keeps the first module,
\* and the second sends no priority and keeps both
ConcCatalog ==
    << Row(ML, 85), Row(AT, 70) >>

ConcData ==
    [ p \in Procs |->
        [ body |-> "object",
          user_priority |-> IF p = "r1" THEN {<<3>>} ELSE {},
          selected_importance |-> {3},
          selected_categories |-> {},
          selected_aspects |-> {<<"neural networks", "workload">>} ] ]

InitConc ==
    /\ catalog = ConcCatalog
    /\ topic_table = TopicRows
    /\ recommended_modules \in {json_dumps(<<>>), json_dumps(<<OM>>)}
    /\ pc = [p \in Procs |-> "idle"]
    /\ data = ConcData
    /\ InitLocals
    /\ call = NoCall

SpecConc == InitConc /\ [][Next]_vars

(***************************************************************************)
(* Runs one after the other, over a Module table that changes between and  *)
(* during them.                                                            *)
(***************************************************************************)
\* the most requests one behaviour of SpecRuns holds
MaxRuns == 2

\* the Module tables populate_db.py may write: the third one spells a name
\* of the first in lower case
RunCatalogs ==
    { ConcCatalog,
      << Row(AT, 70) >>,
      << Row("machine learning", 85) >> }

\* the payloads of the runs: nothing but an empty priority list (importance
\* defaults to 1), and the subject filter alone with importance 3
RunPayloads ==
    { [ body |-> "object", user_priority |-> {<<>>}, selected_importance |-> {},
        selected_categories |-> {}, selected_aspects |-> {} ],
      [ body |-> "object", user_priority |-> {<<2>>}, selected_importance |-> {3},
        selected_categories |-> {<<"AI & Machine Learning", "Robotics", "Algorithms">>},
        selected_aspects |-> {} ] }

\* the user posts again once the response of the request before has come: a
\* new request with its own session and its own locals
NewRequest(p) ==
    /\ pc[p] = "done"
    /\ Len(arrivals) < MaxRuns
    /\ pc' = [pc EXCEPT ![p] = "idle"]
    /\ \E d \in RunPayloads : data' = [data EXCEPT ![p] = d]
    /\ attr' = [attr EXCEPT ![p] = Expired]
    /\ existing_modules' = [existing_modules EXCEPT ![p] = <<>>]
    /\ modules' = [modules EXCEPT ![p] = <<>>]
    /\ idx' = [idx EXCEPT ![p] = 1]
    /\ shortlist' = [shortlist EXCEPT ![p] = <<>>]
    /\ pidx' = [pidx EXCEPT ![p] = 1]
    /\ response' = [response EXCEPT ![p] = NoResponse]
    /\ before' = [before EXCEPT ![p] = <<>>]
    /\ log' = [log EXCEPT ![p] = <<>>]
    /\ UNCHANGED << tables, recommended_modules >>

\* module_routes.py:69-144, add_module: a row is appended unless a row of
\* that name exists; it may come in while a generation request runs
add_module ==
    /\ Len(catalog) < MaxCat
    /\ \E row \in ModuleRows :
          /\ FirstModule(catalog, row.name) = {}
          /\ catalog' = Append(catalog, row)
    /\ UNCHANGED << topic_table, recommended_modules, pc, data, attr, existing_modules,
                    modules, idx, shortlist, pidx, response, before, log, arrivals,
                    overlap, call, other_columns >>

\* populate_db.py:76-158: the script deletes every Module row and writes the
\* table anew; it is run by hand while the server answers no request
populate_db ==
    /\ \A p \in Procs : ~Running(p)
    /\ catalog' \in RunCatalogs \ {catalog}
    /\ UNCHANGED << topic_table, recommended_modules, pc, data, attr, existing_modules,
                    modules, idx, shortlist, pidx, response, before, log, arrivals,
                    overlap, call, other_columns >>

NextRuns ==
    \/ Next
    \/ \E p \in Procs : NewRequest(p)
    \/ add_module
    \/ populate_db

\* a user whose column holds the default "[]" (models.py:50)
InitRuns ==
    /\ catalog \in RunCatalogs
    /\ topic_table = TopicRows
    /\ recommended_modules = json_dumps(<<>>)
    /\ pc = [p \in Procs |-> IF p = "r1" THEN "idle" ELSE "off"]
    /\ data \in {[p \in Procs |-> IF p = "r1" THEN d ELSE NoBody] : d \in RunPayloads}
    /\ InitLocals
    /\ call = NoCall

SpecRuns == InitRuns /\ [][NextRuns]_vars

(***************************************************************************)
(* One request over payloads and stored lists off the beaten track: a      *)
(* priority value that no filter answers to, preferences of a type the     *)
(* filters cannot handle, and a stored list that repeats a name.           *)
(***************************************************************************)
EdgeCatalogs ==
    { << Row(ML, 85), Row(ML, 50) >>,
      << Row(AT, 70), Row(OM, None) >> }

\* stored lists that repeat a name
EdgePriors == { <<>>, <<OM, OM>>, <<ML, OM, ML>> }

\* 4 is a value that priority_mapping does not know
EdgePriorityOrders == SeqsUpTo({1, 2, 3, 4}, MaxPrio)

\* selected_importance as a number and as null
EdgeImportances == {1, 3, None}

\* selected_categories as strings, and with a JSON array among them
EdgeCategoryLists ==
    { <<"AI & Machine Learning", "Robotics">>, <<"Algorithms", Unhashable>> }

EdgePayloads ==
    [ body : {"object"},
      user_priority : {{order} : order \in EdgePriorityOrders},
      selected_importance : {{importance} : importance \in EdgeImportances},
      selected_categories : {{categories} : categories \in EdgeCategoryLists},
      selected_aspects : {{<<"neural networks", "workload">>}} ]

InitEdge ==
    /\ catalog \in EdgeCatalogs
    /\ topic_table = TopicRows
    /\ recommended_modules \in {json_dumps(list) : list \in EdgePriors}
    /\ pc = [p \in Procs |-> IF p = "r1" THEN "idle" ELSE "off"]
    /\ data \in {[p \in Procs |-> IF p = "r1" THEN d ELSE NoBody] : d \in EdgePayloads}
    /\ InitLocals
    /\ call = NoCall

SpecEdge == InitEdge /\ [][Next]_vars

(***************************************************************************)
(* A generation request and, beside it, GET requests of the same user for  *)
(* the stored list (module_routes.py:611-635), each on a session of its    *)
(* own.                                                                    *)
(***************************************************************************)
\* most GET requests of one behaviour
MaxReads == 3

\* module_routes.py:611-635: login_required loads the user, the list is
\* decoded from the column as it is stored at that moment and returned with
\* status 200
recommended_retrieve(p) ==
    /\ pc[p] = "get"
    /\ Len(log[p]) < MaxReads
    /\ response' = [response EXCEPT ![p] =
                       [status |-> 200,
                        recommended_modules |-> json_loads(recommended_modules)]]
    /\ log' = Logged(p, Event("read", json_loads(recommended_modules)))
    /\ UNCHANGED << tables, recommended_modules, pc, data, attr, existing_modules,
                    modules, idx, shortlist, pidx, before >>

NextRead ==
    \/ Next
    \/ \E p \in Procs : recommended_retrieve(p)

\* the generation request r1 sends no priority and importance 3, which keeps
\* every module, or asks for the aspect filter alone; r2 is the reader
InitRead ==
    /\ catalog = ConcCatalog
    /\ topic_table = TopicRows
    /\ recommended_modules \in {json_dumps(<<OM, AT>>), json_dumps(<<OM>>)}
    /\ pc = [p \in Procs |-> IF p = "r1" THEN "idle" ELSE "get"]
    /\ data \in {[p \in Procs |-> IF p = "r1" THEN ConcData[q] ELSE NoBody] : q \in Procs}
    /\ InitLocals
    /\ call = NoCall

SpecRead == InitRead /\ [][NextRead]_vars

(***************************************************************************)
(* The filters called on their own: on any list of names, also of names    *)
(* without a Module row, and once more on their own result.                *)
(***************************************************************************)
\* longest candidate list drawn by InitFilters
MaxLen == 2

\* a name of filter_by_subject's map without a Module row and without a
\* TopicByModule row
MR == "Mobile Robots"

CandidateLists == SeqsUpTo(Names \cup {MR}, MaxLen)

FilterImportances == {1, 2, 3, 4}

\* "Robotics" is not a key of the map
FilterCategoryLists ==
    { <<>>, <<"AI & Machine Learning">>, <<"Robotics">>, <<"Robotics", "Algorithms">>,
      <<"AI & Machine Learning", "Algorithms", "Robotics">> }

\* no TopicByModule row has the topic "workload"
FilterAspectLists ==
    { <<>>, <<"neural networks">>, <<"assignments">>, <<"workload">>,
      <<"neural networks", "workload">> }

\* the lookups of one call that raise: none, or one of them
RaiseSets(lookups) == {{}} \cup {{k} : k \in 1..Len(lookups)}

\* the state of the requests, which a filter called on its own leaves alone
request_vars ==
    << recommended_modules, pc, data, attr, existing_modules, modules, idx, shortlist,
       pidx, response, before, log, arrivals, overlap, other_columns >>

\* the filter c.fn on the list L with the arguments of the call c
ApplyFilter(c, L, raises) ==
    CASE c.fn = "filter_by_feelings" ->
           filter_by_feelings(catalog, L, c.selected_importance, raises)
      [] c.fn = "filter_by_subject" -> filter_by_subject(L, c.selected_categories)
      [] c.fn = "filter_by_aspect" ->
           filter_by_aspect(topic_table, L, c.selected_aspects, raises)

FilterLookups(c, L) ==
    CASE c.fn = "filter_by_feelings" -> FeelingsLookups(L, c.selected_importance)
      [] c.fn = "filter_by_subject" -> <<>>
      [] c.fn = "filter_by_aspect" -> AspectLookups(L, c.selected_aspects)

\* the call c, made: what it looked up and what it returned
Called(c, raises) ==
    [c EXCEPT !.raises = raises,
              !.lookups = FilterLookups(c, c.current_shortlist),
              !.result = ApplyFilter(c, c.current_shortlist, raises)]

CallFeelings ==
    /\ call.fn = "none"
    /\ \E importance \in FilterImportances :
          LET c == [call EXCEPT !.fn = "filter_by_feelings",
                                !.selected_importance = importance]
          IN  \E raises \in RaiseSets(FilterLookups(c, c.current_shortlist)) :
                 call' = Called(c, raises)
    /\ UNCHANGED << catalog, topic_table, request_vars >>

CallSubject ==
    /\ call.fn = "none"
    /\ \E categories \in FilterCategoryLists :
          call' = Called([call EXCEPT !.fn = "filter_by_subject",
                                      !.selected_categories = categories], {})
    /\ UNCHANGED << catalog, topic_table, request_vars >>

CallAspect ==
    /\ call.fn = "none"
    /\ \E aspects \in FilterAspectLists :
          LET c == [call EXCEPT !.fn = "filter_by_aspect", !.selected_aspects = aspects]
          IN  \E raises \in RaiseSets(FilterLookups(c, c.current_shortlist)) :
                 call' = Called(c, raises)
    /\ UNCHANGED << catalog, topic_table, request_vars >>

\* the same filter, with the same arguments, on the list it has returned
CallAgain ==
    /\ call.fn # "none"
    /\ ~call.again
    /\ \E raises \in RaiseSets(FilterLookups(call, call.result)) :
          call' = [call EXCEPT !.again = TRUE,
                               !.raises_again = raises,
                               !.result_again = ApplyFilter(call, call.result, raises)]
    /\ UNCHANGED << catalog, topic_table, request_vars >>

NextFilters == CallFeelings \/ CallSubject \/ CallAspect \/ CallAgain

\* every Module table and every candidate list of the bounds; no request
InitFilters ==
    /\ catalog \in SeqsUpTo(ModuleRows, MaxCat)
    /\ topic_table = TopicRows
    /\ recommended_modules = json_dumps(<<>>)
    /\ pc = [p \in Procs |-> "off"]
    /\ data = [p \in Procs |-> NoBody]
    /\ InitLocals
    /\ call \in {[NoCall EXCEPT !.current_shortlist = L] : L \in CandidateLists}

SpecFilters == InitFilters /\ [][NextFilters]_vars

(***************************************************************************)
(* Properties.                                                             *)
(***************************************************************************)
\* the list the database holds for the user
stored == json_loads(recommended_modules)

Has(p, kind) == \E k \in 1..Len(log[p]) : log[p][k][1] = kind
HasEvent(p, kind, arg) == \E k \in 1..Len(log[p]) : log[p][k] = Event(kind, arg)

Finished(p, status) == pc[p] = "done" /\ response[p].status = status

\* p is the request that came in last
Latest(p) == arrivals # <<>> /\ arrivals[Len(arrivals)] = p

CatalogNames == [k \in 1..Len(catalog) |-> catalog[k].name]

\* C1 (reset correctness): when a run has answered 200 without a failed add,
\* and no other request ran beside it, the set of names the database holds
\* is the set of names of the returned shortlist, whatever the list held
\* before the run.
C1_ResetCorrect ==
    \A p \in Procs :
        (Finished(p, 200) /\ Latest(p) /\ ~overlap /\ ~Has(p, "add_failed"))
            => Elems(stored) = Elems(response[p].recommended_modules)

\* a run that found "Old Module" stored, returned a nonempty shortlist
\* without it, and met no persistence error
C1_Witness ==
    /\ Finished("r1", 200) /\ ~Has("r1", "add_failed")
    /\ OM \in Elems(before["r1"])
    /\ response["r1"].recommended_modules # <<>>
    /\ OM \notin Elems(response["r1"].recommended_modules)
    /\ HasEvent("r1", "remove", OM)

\* a name passes a filter when the filter keeps it
PassesFeelings(p, module_name) ==
    filter_by_feelings(catalog, <<module_name>>, selected_importance(p), {}) = <<module_name>>
PassesSubject(p, module_name) ==
    filter_by_subject(<<module_name>>, selected_categories(p)) = <<module_name>>
PassesAspect(p, module_name) ==
    filter_by_aspect(topic_table, <<module_name>>, selected_aspects(p), {}) = <<module_name>>

\* the catalog's names, in catalog order, that pass every filter whose number
\* occurs in priority_order, and the feelings predicate when importance <= 2
ExpectedShortlist(p) ==
    LET Passes(module_name) ==
            /\ 1 \in Elems(priority_order(p)) => PassesFeelings(p, module_name)
            /\ 2 \in Elems(priority_order(p)) => PassesSubject(p, module_name)
            /\ 3 \in Elems(priority_order(p)) => PassesAspect(p, module_name)
            /\ selected_importance(p) <= 2 => FeelingsKeeps(catalog, module_name)
    IN  SelectSeq(CatalogNames, Passes)

\* C2: the shortlist a run returns is the catalog's name list restricted to
\* the names that pass every filter named in priority_order and, when
\* importance <= 2, the feelings predicate.
C2_ShortlistIsRestriction ==
    \A p \in Procs :
        Finished(p, 200) => response[p].recommended_modules = ExpectedShortlist(p)

\* a run with importance <= 2 and the subject filter in its priority list,
\* without priority 1, that kept one module and dropped another
C2_Witness ==
    /\ Finished("r1", 200)
    /\ selected_importance("r1") <= 2
    /\ 2 \in Elems(priority_order("r1")) /\ 1 \notin Elems(priority_order("r1"))
    /\ selected_categories("r1") # <<>>
    /\ response["r1"].recommended_modules = <<ML>>
    /\ Len(catalog) = 2


\* the first catalog row of a name: the row that a lookup by name returns
IsFirstRow(k) == \A j \in 1..(k - 1) : catalog[j].name # catalog[k].name

LowRated(row) == row.positive_reviews = None \/ row.positive_reviews < Threshold

C4_RemoveFailureSkipped ==
    \A p \in Procs :
        (Has(p, "remove_failed") /\ pc[p] = "done")
            => /\ response[p].status = 200
               /\ Has(p, "seed")

\* C5, as claimed: every JSON object, whichever preference keys it lacks,
\* gets a recommendation result computed with the defaults.
C5_MissingFieldsDefaulted ==
    \A p \in Procs :
        (data[p].body = "object" /\ pc[p] = "done"
            /\ ~Has(p, "remove_failed") /\ ~HasEvent(p, "seed", "failed"))
            => /\ response[p].status = 200
               /\ response[p].recommended_modules = ExpectedShortlist(p)

\* the priority loop and the override are behind request p
PastOverride(p) == pc[p] \in {"add", "add_commit"} \/ Finished(p, 200)

\* C6, as claimed: with importance <= 2 the feelings filter is applied once
\* more after the priority loop, whether or not 1 occurs in priority_order.
C6_OverrideAlways ==
    \A p \in Procs :
        (PastOverride(p) /\ selected_importance(p) <= 2) => Has(p, "override")

\* C6, amended: the feelings filter is applied after the priority loop
\* exactly when importance <= 2 and 1 does not occur in priority_order; it
\* is then applied once, after every filter of the loop and before any add.
C6_OverrideOnlyWithoutPriority1 ==
    \A p \in Procs :
        PastOverride(p) =>
            /\ Has(p, "override")
                  <=> (selected_importance(p) <= 2 /\ 1 \notin Elems(priority_order(p)))
            /\ \A k \in 1..Len(log[p]) :
                  log[p][k][1] = "override" =>
                      /\ \A j \in 1..Len(log[p]) :
                            /\ log[p][j][1] \in {"filter", "seed"} => j < k
                            /\ log[p][j][1] \in {"add", "add_failed", "add_skip"} => k < j
                            /\ log[p][j][1] = "override" => j = k

\* a run with importance <= 2 whose priority list names the subject filter
\* and not the feelings filter: the override ran after the subject filter
C6_Witness ==
    /\ Finished("r1", 200)
    /\ selected_importance("r1") <= 2
    /\ priority_order("r1") = <<2>>
    /\ log["r1"][2] = Event("filter", "filter_by_subject")
    /\ log["r1"][3] = Event("override", "filter_by_feelings")

\* the names the add loop has tried, in order
RECURSIVE AddAttempts(_)
AddAttempts(events) ==
    IF events = <<>> THEN <<>>
    ELSE IF Head(events)[1] \in {"add", "add_failed", "add_skip"}
         THEN <<Head(events)[2]>> \o AddAttempts(Tail(events))
         ELSE AddAttempts(Tail(events))

\* C7: once an add has failed, the run still goes through the rest of the
\* shortlist and answers 200 with the whole shortlist, the names whose add
\* failed included.
C7_AddFailureDoesNotAbort ==
    \A p \in Procs :
        Has(p, "add_failed") =>
            /\ pc[p] \in {"add", "add_commit", "done"}
            /\ pc[p] = "done" =>
                  /\ response[p].status = 200
                  /\ response[p].recommended_modules = ExpectedShortlist(p)
                  /\ AddAttempts(log[p]) = response[p].recommended_modules

\* a run whose first add failed and whose second add was committed, and that
\* returned both names
C7_Witness ==
    /\ Finished("r1", 200)
    /\ response["r1"].recommended_modules = <<ML, AT>>
    /\ HasEvent("r1", "add_failed", ML)
    /\ HasEvent("r1", "add", AT)

\* the names whose add failed and was not made good by a later add of the
\* same name
FailedNames(p) ==
    {module_name \in Names :
        HasEvent(p, "add_failed", module_name) /\ ~HasEvent(p, "add", module_name)}

\* C8, as claimed: after a run, the database holds the shortlist's names
\* minus exactly the names whose add failed.
C8_OnlyFailedAddsMissing ==
    \A p \in Procs :
        (Finished(p, 200) /\ Latest(p) /\ ~overlap)
            => Elems(stored) = Elems(response[p].recommended_modules) \ FailedNames(p)

\* C9: a request without a JSON body is answered 400 at once: the handler
\* does nothing else, and the stored list is the list of before the request.
C9_MalformedRequestNoRun ==
    \A p \in Procs :
        (data[p].body = "absent" /\ pc[p] \notin {"off", "idle"})
            => /\ Finished(p, 400)
               /\ log[p] = <<Event("respond", "400")>>
               /\ ~overlap => stored = before[p]

\* a request without body, answered, with names stored for the user
C9_Witness ==
    /\ data["r1"].body = "absent"
    /\ Finished("r1", 400)
    /\ before["r1"] = <<ML, OM>>
    /\ stored = <<ML, OM>>

\* both requests have answered 200 without a failed add, and the stored set
\* of names is the set of neither returned shortlist
LostUpdate ==
    /\ \A p \in Procs : Finished(p, 200) /\ ~Has(p, "add_failed")
    /\ \A p \in Procs : Elems(stored) # Elems(response[p].recommended_modules)

\* C10: a lost update is reachable (C10_Witness), and it takes two requests
\* that run at the same time: requests that run one after the other leave
\* the later one's shortlist stored.
C10_LostUpdateOnlyByInterleaving == LostUpdate => overlap

\* the lost update: two overlapping requests, both answered, and the stored
\* set is neither shortlist
C10_Witness == LostUpdate /\ overlap

ResolvesToGoodRecord(module_name) ==
    \E k \in 1..Len(catalog) :
        /\ catalog[k].name = module_name
        /\ IsFirstRow(k)
        /\ ~LowRated(catalog[k])

\* C12: a call of filter_by_feelings with importance <= 2 in which no lookup
\* raises returns the candidates, in their order, whose name resolves to a
\* Module row with positive_reviews not None and >= 70; a candidate without
\* a Module row is left out and the call returns.
C12_FeelingsSubsequence ==
    (call.fn = "filter_by_feelings" /\ call.selected_importance <= 2 /\ call.raises = {})
        => /\ call.result = SelectSeq(call.current_shortlist, ResolvesToGoodRecord)
           /\ call.lookups = call.current_shortlist

\* a candidate without a Module row and a candidate rated exactly 70: the
\* first is left out and the second is kept
C12_Witness ==
    /\ call.fn = "filter_by_feelings"
    /\ call.selected_importance = 2
    /\ call.raises = {}
    /\ catalog = << Row(ML, 50), Row(AT, 70) >>
    /\ call.current_shortlist = <<MR, AT>>
    /\ call.result = <<AT>>

\* C13: a call of filter_by_feelings with importance > 2 returns the list
\* it was given and looks up no module.
C13_FeelingsIdentityAbove2 ==
    (call.fn = "filter_by_feelings" /\ call.selected_importance > 2)
        => /\ call.result = call.current_shortlist
           /\ call.lookups = <<>>

\* importance 3, a candidate whose row has no rating and a candidate without
\* a row: both are returned
C13_Witness ==
    /\ call.fn = "filter_by_feelings"
    /\ call.selected_importance = 3
    /\ catalog = << Row(OM, None) >>
    /\ call.current_shortlist = <<OM, MR>>
    /\ call.result = <<OM, MR>>

\* the name is in the map's list of a selected category
InSelectedCategory(c, module_name) ==
    \E cat \in Elems(c.selected_categories) :
        /\ cat \in DOMAIN modules_each_cat
        /\ module_name \in modules_each_cat[cat]

\* C14: with categories selected, filter_by_subject returns the candidates,
\* in their order, that are in the map's list of some selected category: it
\* adds no name, and the Module table, its category column included, has no
\* part in the result.
C14_SubjectIsMapIntersection ==
    (call.fn = "filter_by_subject" /\ call.selected_categories # <<>>)
        => /\ call.result =
                 SelectSeq(call.current_shortlist,
                           LAMBDA module_name : InSelectedCategory(call, module_name))
           /\ Elems(call.result) \subseteq Elems(call.current_shortlist)
           /\ call.lookups = <<>>

\* the Module table files "Old Module" under a selected category and
\* "Algorithmic Toolbox" under none, the map has it the other way round, and
\* the filter follows the map
C14_Witness ==
    /\ call.fn = "filter_by_subject"
    /\ call.selected_categories = <<"AI & Machine Learning", "Algorithms", "Robotics">>
    /\ catalog = << Row(OM, None), Row(AT, 70) >>
    /\ catalog[1].category = "AI & Machine Learning"
    /\ catalog[2].category = "Data Science"
    /\ call.current_shortlist = <<OM, AT>>
    /\ call.result = <<AT>>

\* C15: filter_by_subject without categories returns the list it was given,
\* and with categories it returns names of that list only, and no more of
\* them than the list holds.
C15_SubjectIdentityOrSubset ==
    call.fn = "filter_by_subject"
        => /\ call.selected_categories = <<>> => call.result = call.current_shortlist
           /\ call.selected_categories # <<>> =>
                 /\ Elems(call.result) \subseteq Elems(call.current_shortlist)
                 /\ Len(call.result) <= Len(call.current_shortlist)

\* no category, and two candidates that no list of the map holds
C15_Witness ==
    /\ call.fn = "filter_by_subject"
    /\ call.selected_categories = <<>>
    /\ call.current_shortlist = <<OM, OM>>
    /\ call.result = <<OM, OM>>

\* the categories of the call that the map knows, in their order
KnownCategories(c) ==
    SelectSeq(c.selected_categories, LAMBDA cat : cat \in DOMAIN modules_each_cat)

\* C16, as claimed: filter_by_subject returns what it returns when the names
\* that the map does not know are taken out of the categories.
C16_UnknownCategoriesRemovable ==
    call.fn = "filter_by_subject"
        => call.result = filter_by_subject(call.current_shortlist, KnownCategories(call))

\* C17: with aspects selected and no lookup that raises, filter_by_aspect
\* returns the candidates, in their order, that have a TopicByModule row
\* whose topic is a selected aspect and whose positive_reviews_topic is not
\* None and is >= 70.
C17_AspectSubsequence ==
    (call.fn = "filter_by_aspect" /\ call.selected_aspects # <<>> /\ call.raises = {})
        => call.result =
              SelectSeq(call.current_shortlist,
                        LAMBDA module_name :
                           \E row \in topic_table :
                              /\ row.name = module_name
                              /\ row.topic \in Elems(call.selected_aspects)
                              /\ row.positive_reviews_topic # None
                              /\ row.positive_reviews_topic >= Threshold)

\* "Algorithmic Toolbox" has the selected topic at 69 and at None and another
\* topic at 70, "Machine Learning" has the selected topic at 80: the second
\* alone is kept
C17_Witness ==
    /\ call.fn = "filter_by_aspect"
    /\ call.selected_aspects = <<"neural networks", "workload">>
    /\ call.raises = {}
    /\ call.current_shortlist = <<AT, ML>>
    /\ call.result = <<ML>>

\* C18: filter_by_aspect without aspects returns the list it was given and
\* looks nothing up, and with aspects it returns names of that list only,
\* and no more of them than the list holds.
C18_AspectIdentityOrSubset ==
    call.fn = "filter_by_aspect"
        => /\ call.selected_aspects = <<>> =>
                 /\ call.result = call.current_shortlist
                 /\ call.lookups = <<>>
           /\ call.selected_aspects # <<>> =>
                 /\ Elems(call.result) \subseteq Elems(call.current_shortlist)
                 /\ Len(call.result) <= Len(call.current_shortlist)

\* no aspect, a candidate without topic rows and a candidate whose topics
\* would fail
C18_Witness ==
    /\ call.fn = "filter_by_aspect"
    /\ call.selected_aspects = <<>>
    /\ call.current_shortlist = <<MR, AT>>
    /\ call.result = <<MR, AT>>

\* the positions of the list L that hold a name of the set F
Positions(L, F) == {k \in 1..Len(L) : L[k] \in F}

\* the tables answer the second call as they answered the first: the names
\* whose lookup raised in the first call are the names whose lookup raises
\* in the second
SameLookupOutcome(c) ==
    LET F == {c.current_shortlist[k] : k \in c.raises}
    IN  /\ c.raises = Positions(c.current_shortlist, F)
        /\ c.raises_again = Positions(c.result, F)

ApplyPriorityTo(p, priority, list) ==
    CASE FilterRaises(p, priority) -> list
      [] priority = 1 -> filter_by_feelings(catalog, list, selected_importance(p), {})
      [] priority = 2 -> filter_by_subject(list, selected_categories(p))
      [] priority = 3 -> filter_by_aspect(topic_table, list, selected_aspects(p), {})
      [] OTHER -> list

\* lines 150-168: the priority loop over the list `order` from position k on
RECURSIVE PriorityPass(_, _, _, _)
PriorityPass(p, order, k, list) ==
    IF k > Len(order) THEN list
    ELSE PriorityPass(p, order, k + 1, ApplyPriorityTo(p, order[k], list))

\* lines 132-179: the shortlist that request p's tables and preferences give
\* when the priority list is `order`
FinalShortlist(p, order) ==
    LET passed == PriorityPass(p, order, 1, CatalogNames)
    IN  IF selected_importance(p) <= 2 /\ 1 \notin Elems(order)
        THEN filter_by_feelings(catalog, passed, selected_importance(p), {})
        ELSE passed

\* the values of a priority list, each once and in ascending order
Ascending(order) == SelectSeq(<<1, 2, 3>>, LAMBDA priority : priority \in Elems(order))

\* C20: the list a run returns is the list that its tables and preferences
\* give for the values of its priority list taken once each, in ascending
\* order.  Every priority list of the bounds is run over every table and
\* payload, so two runs that differ only in the order or the repetition of
\* these values return the same list.
C20_OrderAndRepetitionIrrelevant ==
    \A p \in Procs :
        Finished(p, 200) =>
            response[p].recommended_modules = FinalShortlist(p, Ascending(priority_order(p)))

\* a run with the priority list [3, 2] in which the aspect filter dropped one
\* module and the subject filter the other, as the list [2, 3] has it too
C20_Witness ==
    /\ Finished("r1", 200)
    /\ priority_order("r1") = <<3, 2>>
    /\ selected_importance("r1") = 3
    /\ selected_categories("r1") # <<>> /\ selected_aspects("r1") # <<>>
    /\ catalog = << Row(AT, 70), Row(OM, None) >>
    /\ filter_by_aspect(topic_table, CatalogNames, selected_aspects("r1"), {}) = <<OM>>
    /\ filter_by_subject(CatalogNames, selected_categories("r1")) = <<AT>>
    /\ response["r1"].recommended_modules = <<>>
    /\ FinalShortlist("r1", <<2, 3>>) = <<>>

\* the priority list without the values that priority_mapping does not know
Recognized(order) == SelectSeq(order, LAMBDA priority : priority \in {1, 2, 3})

\* the turns of the priority loop that request p has logged, in order
FilterTurns(p) ==
    SelectSeq(log[p], LAMBDA e : e[1] \in {"filter", "filter_raised"})

\* C21: a run whose priority list holds values outside {1,2,3} returns the
\* list that the priority list without those values gives, and stores that
\* list's names when no add fails; every value of the list gets its turn in
\* order, a value outside {1,2,3} without a filter and the values after it
\* with theirs.
C21_UnknownPrioritySkipped ==
    \A p \in Procs :
        Finished(p, 200) =>
            /\ response[p].recommended_modules
                  = FinalShortlist(p, Recognized(priority_order(p)))
            /\ ~Has(p, "add_failed") =>
                  Elems(stored) = Elems(FinalShortlist(p, Recognized(priority_order(p))))
            /\ Len(FilterTurns(p)) = Len(priority_order(p))
            /\ \A i \in 1..Len(priority_order(p)) :
                  /\ FilterTurns(p)[i][2] = priority_mapping(priority_order(p)[i])
                  /\ priority_order(p)[i] \notin {1, 2, 3}
                        => FilterTurns(p)[i] = Event("filter", "None")

\* the priority list [4, 3]: the 4 is passed over, the aspect filter after
\* it drops one of the two modules, and the other is returned and stored
C21_Witness ==
    /\ Finished("r1", 200)
    /\ priority_order("r1") = <<4, 3>>
    /\ selected_importance("r1") = 3
    /\ catalog = << Row(AT, 70), Row(OM, None) >>
    /\ FilterTurns("r1") = << Event("filter", "None"), Event("filter", "filter_by_aspect") >>
    /\ response["r1"].recommended_modules = <<OM>>
    /\ stored = <<OM>>

\* the list L cut down to its positions in K, in order
SubSeqAt(L, K) ==
    LET at == SelectSeq([i \in 1..Len(L) |-> i], LAMBDA i : i \in K)
    IN  [j \in 1..Len(at) |-> L[at[j]]]

\* what the call's filter decides of a name whose lookup does not raise
NormallyKept(c, module_name) ==
    IF c.fn = "filter_by_feelings"
    THEN ResolvesToGoodRecord(module_name)
    ELSE \E row \in topic_table :
            /\ row.name = module_name
            /\ row.topic \in Elems(c.selected_aspects)
            /\ row.positive_reviews_topic # None
            /\ row.positive_reviews_topic >= Threshold

\* the call runs its loop: filter_by_feelings with importance <= 2, or
\* filter_by_aspect with aspects
Filtering(c) ==
    \/ c.fn = "filter_by_feelings" /\ c.selected_importance <= 2
    \/ c.fn = "filter_by_aspect" /\ c.selected_aspects # <<>>

\* C22: when the lookup of one candidate raises in filter_by_feelings or in
\* filter_by_aspect, the result holds that candidate at its place among the
\* candidates that the filter keeps, and every other candidate is kept or
\* dropped as it is without the exception.
C22_LookupErrorKeepsCandidate ==
    (Filtering(call) /\ call.raises # {})
        => call.result =
              SubSeqAt(call.current_shortlist,
                       {k \in 1..Len(call.current_shortlist) :
                           k \in call.raises
                              \/ NormallyKept(call, call.current_shortlist[k])})

\* the lookup of a candidate without any Module row raises and the candidate
\* is kept; the candidate after it, rated 50, is looked up and dropped
C22_Witness ==
    /\ call.fn = "filter_by_feelings"
    /\ call.selected_importance = 1
    /\ catalog = << Row(ML, 50), Row(AT, 70) >>
    /\ call.current_shortlist = <<MR, ML>>
    /\ call.raises = {1}
    /\ call.result = <<MR>>

AtCommit(p) == pc[p] \in {"remove_commit", "add_commit"}

\* C24: no step of a generation run changes the Module table, the
\* TopicByModule table, the user's saved, taught and selected lists or a
\* list of another user, and the user's recommended_modules changes at the
\* commits of add_recommended_module and remove_recommended_module only:
\* the steps that call the filters write nothing.
C24_RunWritesOwnListOnly ==
    [][/\ catalog' = catalog
       /\ topic_table' = topic_table
       /\ other_columns' = other_columns
       /\ recommended_modules' # recommended_modules => \E p \in Procs : AtCommit(p)]_vars

\* a run that has called two filters and replaced the stored list, with the
\* other lists as they were
C24_Witness ==
    /\ Finished("r1", 200)
    /\ Len(FilterTurns("r1")) = 2
    /\ Has("r1", "override")
    /\ before["r1"] = <<ML, OM>>
    /\ stored = <<AT>>
    /\ other_columns = OtherColumns
    /\ json_loads(other_columns.other_user.recommended_modules) = <<OM, AT>>

\* the names of a list, each once, in the order of their first occurrences
FirstOccurrences(list) ==
    SubSeqAt(list, {k \in 1..Len(list) : \A j \in 1..(k - 1) : list[j] # list[k]})

\* no commit of the run of p has raised
NoPersistenceError(p) == ~Has(p, "remove_failed") /\ ~Has(p, "add_failed")

\* C25: after a run without persistence errors, and without another request
\* of the user beside it, the stored list holds every distinct name of the
\* returned shortlist once, in the order of first occurrence; the response
\* is the shortlist with its repetitions.
C25_StoredIsDistinctShortlist ==
    \A p \in Procs :
        (Finished(p, 200) /\ NoPersistenceError(p) /\ ~overlap)
            => /\ stored = FirstOccurrences(response[p].recommended_modules)
               /\ response[p].recommended_modules = shortlist[p]

\* two Module rows share a name: the response repeats it, the column does not
C25_Witness ==
    /\ Finished("r1", 200)
    /\ NoPersistenceError("r1")
    /\ catalog = << Row(ML, 85), Row(ML, 50) >>
    /\ response["r1"].recommended_modules = <<ML, ML>>
    /\ HasEvent("r1", "add_skip", ML)
    /\ stored = <<ML>>

\* the positions of the log of p that hold an event of one of the kinds
EventsAt(p, kinds) == {k \in 1..Len(log[p]) : log[p][k][1] \in kinds}

RemoveKinds == {"remove", "remove_skip"}
AddKinds == {"add", "add_skip", "add_failed"}
FilterKinds == {"filter", "filter_raised", "override", "override_raised"}

\* C26: in a run without persistence errors and without another request of
\* the user beside it, whatever the list held before (a name twice as
\* well), the stored list is empty when the seed step is about to execute,
\* every remove of the run precedes every add, and no filter is applied
\* once the first add has been made.
C26_ResetThenFilterThenAdd ==
    \A p \in Procs :
        (NoPersistenceError(p) /\ ~overlap)
            => /\ pc[p] = "seed" => stored = <<>>
               /\ \A i \in EventsAt(p, RemoveKinds) :
                     \A j \in EventsAt(p, AddKinds \cup FilterKinds \cup {"seed"}) : i < j
               /\ \A i \in EventsAt(p, FilterKinds) : \A j \in EventsAt(p, AddKinds) : i < j

\* a prior list that names a module twice: three removes, then the seed on
\* the empty list, then a filter, then the adds
C26_Witness ==
    /\ Finished("r1", 200)
    /\ NoPersistenceError("r1")
    /\ before["r1"] = <<ML, OM, ML>>
    /\ Cardinality(EventsAt("r1", {"remove"})) = 3
    /\ EventsAt("r1", {"filter"}) # {}
    /\ EventsAt("r1", {"add"}) # {}
    /\ stored = response["r1"].recommended_modules

\* the feelings filter as the request of p gets it once, by priority 1 or by
\* the additional filter: it filters when selected_importance <= 2
FeelingsOf(p, list) ==
    IF selected_importance(p) <= 2
    THEN filter_by_feelings(catalog, list, selected_importance(p), {})
    ELSE list

\* C27: the list a run returns does not depend on selected_categories when 2
\* is not among its priorities, nor on selected_aspects when 3 is not: no
\* subject (aspect) filter is called, and the list is the catalog's names
\* through the filters of the other priorities and the feelings predicate.
\* With no priority at all it is the catalog through the feelings predicate
\* when selected_importance <= 2, and the whole catalog otherwise.
C27_UnselectedFilterIrrelevant ==
    \A p \in Procs :
        Finished(p, 200) =>
            LET order == Elems(priority_order(p))
                returned == response[p].recommended_modules
            IN  /\ priority_order(p) = <<>> => returned = FeelingsOf(p, CatalogNames)
                /\ 2 \notin order =>
                      /\ ~HasEvent(p, "filter", "filter_by_subject")
                      /\ returned = FeelingsOf(p,
                            IF 3 \in order
                            THEN filter_by_aspect(topic_table, CatalogNames,
                                                  selected_aspects(p), {})
                            ELSE CatalogNames)
                /\ 3 \notin order =>
                      /\ ~HasEvent(p, "filter", "filter_by_aspect")
                      /\ returned = FeelingsOf(p,
                            IF 2 \in order
                            THEN filter_by_subject(CatalogNames, selected_categories(p))
                            ELSE CatalogNames)

\* no priority sent, categories and aspects sent that would each drop a
\* module: the feelings predicate alone decides
C27_Witness ==
    /\ Finished("r1", 200)
    /\ data["r1"].user_priority = {}
    /\ selected_importance("r1") <= 2
    /\ filter_by_subject(CatalogNames, selected_categories("r1")) # CatalogNames
    /\ filter_by_aspect(topic_table, CatalogNames, selected_aspects("r1"), {}) # CatalogNames
    /\ response["r1"].recommended_modules = FeelingsOf("r1", CatalogNames)
    /\ response["r1"].recommended_modules # <<>>
    /\ response["r1"].recommended_modules # CatalogNames

\* C28: when the query of the seed step raises, the request ends with
\* status 500 at once: the reset has run, no filter and no add follows, and
\* with no other request of the user beside it the stored list is empty,
\* whatever it held before.
C28_SeedFailureAfterReset ==
    \A p \in Procs :
        HasEvent(p, "seed", "failed")
            => /\ Finished(p, 500)
               /\ log[p][Len(log[p])] = Event("seed", "failed")
               /\ EventsAt(p, FilterKinds \cup AddKinds) = {}
               /\ Cardinality(EventsAt(p, RemoveKinds)) = Len(before[p])
               /\ ~overlap => stored = <<>>

\* the list held two names, both were removed, and the seed failed
C28_Witness ==
    /\ HasEvent("r1", "seed", "failed")
    /\ Finished("r1", 500)
    /\ before["r1"] = <<ML, OM>>
    /\ HasEvent("r1", "remove", ML)
    /\ HasEvent("r1", "remove", OM)
    /\ stored = <<>>

\* the lists the GET requests of p were answered with, in order
Observed(p) == [k \in 1..Len(log[p]) |-> log[p][k][2]]

IsPrefix(s, t) == Len(s) <= Len(t) /\ SubSeq(t, 1, Len(s)) = s
IsSuffix(s, t) == Len(s) <= Len(t) /\ SubSeq(t, Len(t) - Len(s) + 1, Len(t)) = s

\* C29: a GET of the stored list beside a generation run sees the list as
\* the commits made so far have left it.  Beside a run without persistence
\* errors every answer is what is left of the old list after some removes
\* (the whole old list, a part of it, or nothing) or the first names of the
\* new list; the witness has answers that are neither the old list nor the
\* new one.
C29_ReadSeesIntermediateList ==
    (Finished("r1", 200) /\ NoPersistenceError("r1"))
        => \A k \in 1..Len(log["r2"]) :
              \/ IsSuffix(Observed("r2")[k], before["r1"])
              \/ IsPrefix(Observed("r2")[k], stored)

\* three reads beside one run: the old list with one name removed, the
\* empty list, and the first name of the new list of two
C29_Witness ==
    /\ Finished("r1", 200)
    /\ NoPersistenceError("r1")
    /\ before["r1"] = <<OM, AT>>
    /\ stored = <<ML, AT>>
    /\ response["r1"].recommended_modules = <<ML, AT>>
    /\ Len(log["r2"]) = 3
    /\ Observed("r2") = << <<AT>>, <<>>, <<ML>> >>

\* C30, as claimed: a run in which a whole filter call has raised goes on
\* with the shortlist as it was before that call, applies the filters of
\* the priorities after it, stores the result and answers 200.
C30_FilterExceptionTolerated ==
    \A p \in Procs :
        (Has(p, "filter_raised") /\ pc[p] = "done" /\ NoPersistenceError(p))
            => /\ Finished(p, 200)
               /\ Len(FilterTurns(p)) = Len(priority_order(p))
               /\ response[p].recommended_modules = FinalShortlist(p, priority_order(p))
               /\ stored = FirstOccurrences(response[p].recommended_modules)

====
